---------------------------- MODULE Spec2Model ----------------------------
(***************************************************************************)
(* Model of todo.py (MrPolymath/todoterm).                                 *)
(*                                                                         *)
(* Strings are sequences of one-character strings, so that split, join,    *)
(* startswith, slicing and lower are computed and not assumed.             *)
(* Python indices are 0-based; the model keeps the source's 0-based loop   *)
(* variables and converts at the point of access.                          *)
(***************************************************************************)
EXTENDS Integers, Sequences, FiniteSets, TLC

VARIABLES
    command,          \* parse_command: the argument string
    pc,               \* parse_command: position in the function body
    parts,            \* parse_command: the working token list
    tags,             \* parse_command: the extracted tag names
    deadline,         \* parse_command: the deadline, None when absent
    i,                \* parse_command: loop index of the current for loop
    chunk_size,       \* parse_command: window length of the outer loop
    best_deadline,    \* parse_command: best window's resolved value
    best_i,           \* parse_command: best window's start index
    best_chunk_size,  \* parse_command: best window's length
    title,            \* parse_command: the returned title
    accepted,         \* dateparser: the phrases found to resolve so far
    calls,            \* dateparser: the calls made, in order
    db,               \* ~/.todo.db: the tables tasks, tags, task_tags and the id sequence
    filter_status,    \* TodoApp.filter_status
    filter_tag,       \* TodoApp.filter_tag
    filter_search,    \* TodoApp.filter_search
    table_rows,       \* the DataTable's rows: the id of the task each row shows
    cursor_row,       \* DataTable.cursor_row
    ui                \* the screen on top, the search box, the focus, the pending
                      \* refresh timer and whether the app is still running

parseVars == <<command, pc, parts, tags, deadline, i, chunk_size, best_deadline,
               best_i, best_chunk_size, title, accepted, calls>>

appVars == <<db, filter_status, filter_tag, filter_search, table_rows, cursor_row, ui>>

vars == <<parseVars, appVars>>

-----------------------------------------------------------------------------
(* Bounds *)

MaxTokens == 6
MaxWords == 3
MaxAccepted == 2
MaxTasks == 2

-----------------------------------------------------------------------------
(* Python values and string primitives *)

\* None; every other value of an optional is a non-empty tuple
None == <<>>

Min(a, b) == IF a < b THEN a ELSE b

Max(a, b) == IF a < b THEN b ELSE a

\* s[a:b] for 0 <= a, with Python's clamping of the upper end
Slice(s, a, b) == SubSeq(s, a + 1, Min(b, Len(s)))

\* s[a:]
SliceFrom(s, a) == SubSeq(s, a + 1, Len(s))

UpperCase == <<"A", "B", "C", "D", "E", "F", "G", "H", "I", "J", "K", "L", "M",
               "N", "O", "P", "Q", "R", "S", "T", "U", "V", "W", "X", "Y", "Z">>

LowerCase == <<"a", "b", "c", "d", "e", "f", "g", "h", "i", "j", "k", "l", "m",
               "n", "o", "p", "q", "r", "s", "t", "u", "v", "w", "x", "y", "z">>

LowerChar(c) ==
    IF \E k \in 1..Len(UpperCase) : UpperCase[k] = c
    THEN LowerCase[CHOOSE k \in 1..Len(UpperCase) : UpperCase[k] = c]
    ELSE c

\* str.lower()
lower(s) == [k \in 1..Len(s) |-> LowerChar(s[k])]

\* str.isspace() of one character
IsSpace(c) == c \in {" ", "\t"}

\* str.startswith('#')
startswith_hash(s) == Len(s) > 0 /\ s[1] = "#"

RECURSIVE split_from(_, _, _)
\* str.split(): cur is the token being read, k the next position
split_from(s, k, cur) ==
    IF k > Len(s)
    THEN IF cur = <<>> THEN <<>> ELSE <<cur>>
    ELSE IF IsSpace(s[k])
         THEN IF cur = <<>>
              THEN split_from(s, k + 1, <<>>)
              ELSE <<cur>> \o split_from(s, k + 1, <<>>)
         ELSE split_from(s, k + 1, Append(cur, s[k]))

split(s) == split_from(s, 1, <<>>)

RECURSIVE join_TrailingSpace(_)
join_TrailingSpace(ps) ==
    IF ps = <<>> THEN <<>>
    ELSE ps[1] \o <<" ">> \o join_TrailingSpace(Tail(ps))

RECURSIVE join(_)
\* ' '.join(ps)
join(ps) ==
    IF ps = <<>> THEN <<>>
    ELSE IF Len(ps) = 1 THEN ps[1]
    ELSE ps[1] \o <<" ">> \o join(Tail(ps))

\* the value of an expression that raises IndexError
IndexError == <<"IndexError">>

TagName_Index(part) == IF Len(part) > 1 THEN <<part[2]>> ELSE IndexError

\* part[1:]
TagName(part) == SliceFrom(part, 1)

RECURSIVE SelectTags_Unique(_)
SelectTags_Unique(ps) ==
    IF ps = <<>> THEN <<>>
    ELSE LET rest == SelectTags_Unique(SubSeq(ps, 1, Len(ps) - 1))
             last == ps[Len(ps)]
         IN IF startswith_hash(last) /\ \A k \in DOMAIN rest : rest[k] # TagName(last)
            THEN Append(rest, TagName(last))
            ELSE rest

RECURSIVE SelectTags(_)
\* [part[1:] for part in parts if part.startswith('#')]
SelectTags(ps) ==
    IF ps = <<>> THEN <<>>
    ELSE IF startswith_hash(Head(ps))
         THEN <<TagName(Head(ps))>> \o SelectTags(Tail(ps))
         ELSE SelectTags(Tail(ps))

RECURSIVE RemoveTags_FirstOnly(_)
RemoveTags_FirstOnly(ps) ==
    IF ps = <<>> THEN <<>>
    ELSE IF startswith_hash(Head(ps))
         THEN Tail(ps)
         ELSE <<Head(ps)>> \o RemoveTags_FirstOnly(Tail(ps))

RECURSIVE RemoveTags(_)
\* [part for part in parts if not part.startswith('#')]
RemoveTags(ps) ==
    IF ps = <<>> THEN <<>>
    ELSE IF startswith_hash(Head(ps))
         THEN RemoveTags(Tail(ps))
         ELSE <<Head(ps)>> \o RemoveTags(Tail(ps))

deadline_keywords == << <<"f", "o", "r">>, <<"d", "u", "e">>, <<"b", "y">>, <<"o", "n">> >>

IsKeyword(part) == \E k \in 1..Len(deadline_keywords) : deadline_keywords[k] = lower(part)

-----------------------------------------------------------------------------
(* The date resolver (dateparser.parse) *)

\* the value a resolvable phrase resolves to
DateOf(phrase) == <<"datetime", phrase>>

Asked(phrase) == \E k \in 1..Len(calls) : calls[k].phrase = phrase

\* The answers the resolver can give for a phrase: it is a function of the
\* phrase, so a phrase asked before gets the same answer again.
Answers(phrase) ==
    IF phrase \in accepted THEN {TRUE}
    ELSE IF Asked(phrase) THEN {FALSE}
    ELSE IF Cardinality(accepted) < MaxAccepted THEN {TRUE, FALSE}
    ELSE {FALSE}

dateparser_parse(phrase, ok) == IF ok THEN DateOf(phrase) ELSE None

-----------------------------------------------------------------------------
(* The inputs *)

\* plain words, a keyword in mixed case and one in lower case, two tags, a
\* bare '#', and the empty word, which gives leading, trailing and repeated spaces
Words == { <<"x">>, <<"y">>, <<"B", "y">>, <<"o", "n">>, <<"#", "a">>, <<"#", "b">>,
           <<"#">>, <<>> }

SeqsUpTo(S, n) == UNION { [1..m -> S] : m \in 0..n }

\* longer runs of words: all "x", with at most one other word among them
LongSeqs(n) ==
    { [k \in 1..m |-> IF k = p THEN w ELSE <<"x">>] :
         m \in 0..n, p \in 0..n, w \in { <<"y">>, <<"B", "y">> } }

RECURSIVE SingleSpaced(_)
\* the words ws written with exactly one space between neighbours
SingleSpaced(ws) ==
    IF Len(ws) = 0 THEN <<>>
    ELSE IF Len(ws) = 1 THEN ws[1]
    ELSE SingleSpaced(SubSeq(ws, 1, Len(ws) - 1)) \o <<" ">> \o ws[Len(ws)]

\* short commands over all words, and the longer runs
Commands == { SingleSpaced(ws) : ws \in SeqsUpTo(Words, MaxWords) \cup LongSeqs(MaxTokens) }

-----------------------------------------------------------------------------
(* The database ~/.todo.db and the functions that read and write it *)

\* the None of filter_status, whose other values are the keys of STATUSES
NoStatus == "None"

STATUSES == {"todo", "doing", "done"}

\* tasks: the rows of table tasks, oldest first (created_at ascending; one
\*        task is created per timestamp, so ORDER BY created_at is total);
\* tags: the names of table tags, the tag's id being its position;
\* task_tags: the rows <<task_id, tag_id>>; seq: the AUTOINCREMENT sequence
EmptyDb == [tasks |-> <<>>, tags |-> <<>>, task_tags |-> {}, seq |-> 0]

TagId(d, name) == CHOOSE k \in DOMAIN d.tags : d.tags[k] = name

\* GROUP_CONCAT(DISTINCT tag.name) of one task, as the list of names
TagNamesOf(d, task_id) ==
    LET ids == {k \in DOMAIN d.tags : <<task_id, k>> \in d.task_tags}
        IsLinked(name) == TagId(d, name) \in ids
    IN SelectSeq(d.tags, IsLinked)

\* the rows of get_tasks(): ORDER BY created_at DESC
get_tasks(d) ==
    [k \in 1..Len(d.tasks) |->
        LET t == d.tasks[Len(d.tasks) - k + 1]
        IN [id |-> t.id, title |-> t.title, description |-> t.description,
            deadline |-> t.deadline, status |-> t.status, tags |-> TagNamesOf(d, t.id)]]

\* UPDATE tasks SET status = ? WHERE id = ?
update_task_status(d, task_id, new_status) ==
    [d EXCEPT !.tasks = [k \in DOMAIN d.tasks |->
                            IF d.tasks[k].id = task_id
                            THEN [d.tasks[k] EXCEPT !.status = new_status]
                            ELSE d.tasks[k]]]

\* DELETE FROM task_tags WHERE task_id = ?; DELETE FROM tasks WHERE id = ?
delete_task(d, task_id) ==
    LET Other(t) == t.id # task_id
    IN [d EXCEPT !.task_tags = {l \in d.task_tags : l[1] # task_id},
                 !.tasks = SelectSeq(d.tasks, Other)]

\* the result of a statement that violates a constraint
IntegrityError == [tasks |-> <<>>, tags |-> <<>>, task_tags |-> {}, seq |-> -1]

RECURSIVE LinkTags(_, _, _)
\* for tag in tags: INSERT OR IGNORE INTO tags; SELECT id; INSERT INTO task_tags
LinkTags(d, task_id, names) ==
    IF names = <<>> THEN d
    ELSE LET withTag == IF \E k \in DOMAIN d.tags : d.tags[k] = Head(names)
                        THEN d
                        ELSE [d EXCEPT !.tags = Append(d.tags, Head(names))]
             tag_id  == TagId(withTag, Head(names))
         IN IF <<task_id, tag_id>> \in withTag.task_tags
            THEN IntegrityError
            ELSE LinkTags([withTag EXCEPT !.task_tags = @ \cup {<<task_id, tag_id>>}],
                          task_id, Tail(names))

RECURSIVE WrittenBeforeError(_, _, _)
\* what the statements of the loop have written, uncommitted, when one of
\* them raises
WrittenBeforeError(d, task_id, names) ==
    IF names = <<>> THEN d
    ELSE LET withTag == IF \E k \in DOMAIN d.tags : d.tags[k] = Head(names)
                        THEN d
                        ELSE [d EXCEPT !.tags = Append(d.tags, Head(names))]
             tag_id  == TagId(withTag, Head(names))
         IN IF <<task_id, tag_id>> \in withTag.task_tags
            THEN withTag
            ELSE WrittenBeforeError([withTag EXCEPT !.task_tags = @ \cup {<<task_id, tag_id>>}],
                                    task_id, Tail(names))

CloseWithoutCommit_KeepsWrites(committed, uncommitted) == uncommitted

\* except: conn.close() with the transaction open: the database file is
\* left as of the last commit
CloseWithoutCommit(committed, uncommitted) == committed

\* add_task: the database after the call, which either reaches conn.commit()
\* or raises
add_task(d, ttl, description, dl, names) ==
    LET task_id  == d.seq + 1
        inserted == [d EXCEPT !.tasks = Append(d.tasks,
                                   [id |-> task_id, title |-> ttl, description |-> description,
                                    deadline |-> dl, status |-> "todo"]),
                              !.seq = task_id]
        linked   == LinkTags(inserted, task_id, names)
    IN IF linked = IntegrityError
       THEN CloseWithoutCommit(d, WrittenBeforeError(inserted, task_id, names))
       ELSE linked

\* add_task raises
add_task_raises(d, names) ==
    LinkTags([d EXCEPT !.seq = d.seq + 1], d.seq + 1, names) = IntegrityError

-----------------------------------------------------------------------------
(* TodoApp: the table and its filters *)

RECURSIVE JoinWith(_, _)
\* sep.join(ws)
JoinWith(ws, sep) ==
    IF ws = <<>> THEN <<>>
    ELSE IF Len(ws) = 1 THEN ws[1]
    ELSE ws[1] \o sep \o JoinWith(Tail(ws), sep)

\* needle in hay
Contains(hay, needle) ==
    \E k \in 0..(Len(hay) - Len(needle)) : SubSeq(hay, k + 1, k + Len(needle)) = needle

\* the filters of refresh_table applied to one row of get_tasks()
PassesFilters(row, fs, ft, fq) ==
    /\ ~(fs # NoStatus /\ row.status # fs)
    /\ ~(ft # None /\ ~\E k \in DOMAIN row.tags : row.tags[k] = ft)
    /\ ~(fq # None /\
           LET search_text == lower(row.title \o <<" ">> \o row.description \o <<" ">>
                                    \o JoinWith(row.tags, <<",">>))
               terms == split(fq)
           IN ~\E k \in DOMAIN terms : Contains(search_text, terms[k]))

\* the rows refresh_table puts in the table, as the ids of the tasks shown
RefreshRows(d, fs, ft, fq) ==
    LET Shown(row) == PassesFilters(row, fs, ft, fq)
        rows == SelectSeq(get_tasks(d), Shown)
    IN [k \in DOMAIN rows |-> rows[k].id]

\* DataTable.move_cursor(row=r): the cursor is kept inside the table
ClampRow(r, row_count) == IF row_count = 0 THEN 0 ELSE Max(0, Min(r, row_count - 1))

status_cycle(st) ==
    CASE st = "todo" -> "doing"
      [] st = "doing" -> "done"
      [] st = "done" -> "todo"
      [] OTHER -> "todo"

\* TodoApp.__init__ and on_mount on a new database
AppInit ==
    /\ db = EmptyDb
    /\ filter_status = NoStatus
    /\ filter_tag = None
    /\ filter_search = None
    /\ table_rows = <<>>
    /\ cursor_row = 0
    /\ ui = [screen |-> "main", search_visible |-> FALSE, focus |-> "table",
             refresh_pending |-> FALSE, running |-> TRUE, status_error |-> FALSE]

-----------------------------------------------------------------------------
(* parse_command: the expressions of its body *)

KeywordFound_Always(d) == TRUE

\* if deadline: (after the keyword call)
KeywordFound(d) == d # None

HasTokenAfter_Always(k, n) == TRUE

\* i + 1 < len(parts)
HasTokenAfter(k, n) == k + 1 < n

KeptBeforeKeyword_KeepsKeyword(ps, k) == Slice(ps, 0, k + 1)

\* parts[:i]
KeptBeforeKeyword(ps, k) == Slice(ps, 0, k)

SearchWindows_Always(d) == TRUE

\* if not deadline:
SearchWindows(d) == d = None

FirstChunkSize(n) == Min(5, n)

ChunkSizeInRange_IncludesOne(cs) == cs > 0

\* range(min(5, len(parts)), 1, -1) has not reached its stop
ChunkSizeInRange(cs) == cs > 1

NextChunkSize_Stuck(cs) == cs

\* the step of range(min(5, len(parts)), 1, -1)
NextChunkSize(cs) == cs - 1

ReplacesBest_Strict(k, bi) == k < bi

\* if i <= best_i:
ReplacesBest(k, bi) == k <= bi

RemoveSpan_DropsTail(ps, bi, bc) == Slice(ps, 0, bi)

RemoveSpan_OffByOne(ps, bi, bc) == Slice(ps, 0, bi) \o SliceFrom(ps, bi + bc + 1)

\* parts[:best_i] + parts[best_i + best_chunk_size:]
RemoveSpan(ps, bi, bc) == Slice(ps, 0, bi) \o SliceFrom(ps, bi + bc)

-----------------------------------------------------------------------------
(* parse_command *)

Init ==
    /\ command \in Commands
    /\ pc = "split"
    /\ parts = <<>>
    /\ tags = <<>>
    /\ deadline = None
    /\ i = 0
    /\ chunk_size = 0
    /\ best_deadline = None
    /\ best_i = 0
    /\ best_chunk_size = 0
    /\ title = <<>>
    /\ accepted = {}
    /\ calls = <<>>
    /\ AppInit

\* parts = command.split()
Tokenize ==
    /\ pc = "split"
    /\ parts' = split(command)
    /\ pc' = "tags"
    /\ UNCHANGED <<command, tags, deadline, i, chunk_size, best_deadline,
                   best_i, best_chunk_size, title, accepted, calls>>
    /\ UNCHANGED appVars

\* the two list comprehensions, then deadline = None.  An exception in the
\* first comprehension leaves parse_command; the other expressions of the
\* body are slices, joins, len, range and comparisons, which raise nothing.
ExtractTags ==
    /\ pc = "tags"
    /\ IF \E k \in DOMAIN SelectTags(parts) : SelectTags(parts)[k] = IndexError
       THEN /\ pc' = "raised"
            /\ UNCHANGED <<tags, parts, deadline, i>>
       ELSE /\ tags' = SelectTags(parts)
            /\ parts' = RemoveTags(parts)
            /\ deadline' = None
            /\ i' = 0
            /\ pc' = "keyword"
    /\ UNCHANGED <<command, chunk_size, best_deadline, best_i,
                   best_chunk_size, title, accepted, calls>>
    /\ UNCHANGED appVars

\* one iteration of: for i, part in enumerate(parts)
KeywordStep ==
    /\ pc = "keyword"
    /\ i < Len(parts)
    /\ IF IsKeyword(parts[i + 1]) /\ HasTokenAfter(i, Len(parts))
       THEN LET date_str == join(SliceFrom(parts, i + 1)) IN
            \E ok \in Answers(date_str) :
               /\ calls' = Append(calls, [stage |-> "keyword", phrase |-> date_str,
                                          start |-> i + 1, len |-> Len(parts) - i - 1])
               /\ accepted' = IF ok THEN accepted \cup {date_str} ELSE accepted
               /\ deadline' = dateparser_parse(date_str, ok)
               /\ IF KeywordFound(deadline')
                  THEN /\ parts' = KeptBeforeKeyword(parts, i)
                       /\ pc' = "after_keyword"
                       /\ i' = i
                  ELSE /\ parts' = parts
                       /\ pc' = pc
                       /\ i' = i + 1
       ELSE /\ i' = i + 1
            /\ UNCHANGED <<calls, accepted, deadline, parts, pc>>
    /\ UNCHANGED <<command, tags, chunk_size, best_deadline, best_i,
                   best_chunk_size, title>>
    /\ UNCHANGED appVars

\* the keyword loop is exhausted
KeywordLoopEnd ==
    /\ pc = "keyword"
    /\ i >= Len(parts)
    /\ pc' = "after_keyword"
    /\ UNCHANGED <<command, parts, tags, deadline, i, chunk_size, best_deadline,
                   best_i, best_chunk_size, title, accepted, calls>>
    /\ UNCHANGED appVars

\* if not deadline: initialise the windowed search, else go to the title
WindowInit ==
    /\ pc = "after_keyword"
    /\ IF SearchWindows(deadline)
       THEN /\ best_deadline' = None
            /\ best_i' = Len(parts)
            /\ best_chunk_size' = 0
            /\ chunk_size' = FirstChunkSize(Len(parts))
            /\ i' = 0
            /\ pc' = "window"
       ELSE /\ pc' = "title"
            /\ UNCHANGED <<best_deadline, best_i, best_chunk_size, chunk_size, i>>
    /\ UNCHANGED <<command, parts, tags, deadline, title, accepted, calls>>
    /\ UNCHANGED appVars

\* one iteration of the inner loop: for i in range(len(parts) - chunk_size + 1)
WindowStep ==
    /\ pc = "window"
    /\ ChunkSizeInRange(chunk_size)
    /\ i < Len(parts) - chunk_size + 1
    /\ LET date_str == join(Slice(parts, i, i + chunk_size)) IN
       \E ok \in Answers(date_str) :
          LET parsed_date == dateparser_parse(date_str, ok) IN
          /\ calls' = Append(calls, [stage |-> "window", phrase |-> date_str,
                                     start |-> i, len |-> chunk_size])
          /\ accepted' = IF ok THEN accepted \cup {date_str} ELSE accepted
          /\ IF parsed_date # None /\ ReplacesBest(i, best_i)
             THEN /\ best_deadline' = parsed_date
                  /\ best_i' = i
                  /\ best_chunk_size' = chunk_size
             ELSE UNCHANGED <<best_deadline, best_i, best_chunk_size>>
    /\ i' = i + 1
    /\ UNCHANGED <<command, pc, parts, tags, deadline, chunk_size, title>>
    /\ UNCHANGED appVars

\* the inner loop is exhausted: next chunk_size of range(min(5, len(parts)), 1, -1)
WindowNextSize ==
    /\ pc = "window"
    /\ ChunkSizeInRange(chunk_size)
    /\ i >= Len(parts) - chunk_size + 1
    /\ chunk_size' = NextChunkSize(chunk_size)
    /\ i' = 0
    /\ UNCHANGED <<command, pc, parts, tags, deadline, best_deadline, best_i,
                   best_chunk_size, title, accepted, calls>>
    /\ UNCHANGED appVars

\* the outer loop is exhausted: if best_deadline: remove the span
WindowEnd ==
    /\ pc = "window"
    /\ ~ChunkSizeInRange(chunk_size)
    /\ IF best_deadline # None
       THEN /\ deadline' = best_deadline
            /\ parts' = RemoveSpan(parts, best_i, best_chunk_size)
       ELSE UNCHANGED <<deadline, parts>>
    /\ pc' = "title"
    /\ UNCHANGED <<command, tags, i, chunk_size, best_deadline, best_i,
                   best_chunk_size, title, accepted, calls>>
    /\ UNCHANGED appVars

\* title = ' '.join(parts); return title, deadline, tags
AssembleTitle ==
    /\ pc = "title"
    /\ title' = join(parts)
    /\ pc' = "done"
    /\ UNCHANGED <<command, parts, tags, deadline, i, chunk_size, best_deadline,
                   best_i, best_chunk_size, accepted, calls>>
    /\ UNCHANGED appVars

Next ==
    \/ Tokenize
    \/ ExtractTags
    \/ KeywordStep
    \/ KeywordLoopEnd
    \/ WindowInit
    \/ WindowStep
    \/ WindowNextSize
    \/ WindowEnd
    \/ AssembleTitle

Spec == Init /\ [][Next]_vars

\* parse_command is straight-line sequential code: a step that can be taken is taken
FairSpec == Spec /\ WF_vars(Next)

-----------------------------------------------------------------------------
(* TodoApp: the handlers.  A key binding of the app is handled while the    *)
(* main screen is on top and the table has the focus; the 0.1 s refresh     *)
(* timer fires before another screen is opened.                             *)

\* what is typed into the task field of NewTaskScreen, stripped and not empty
AppCommands == { SingleSpaced(ws) : ws \in { << <<"x">>, <<"#", "a">> >>,
                                             << <<"y">> >>,
                                             << <<"x">>, <<"y">> >>,
                                             << <<"y">>, <<"#", "a">>, <<"#", "a">> >> } }

\* what is typed into the search box
SearchTexts == { <<"x">>, <<"Y">> }

\* the buttons of FilterScreen: All, one per status, one per tag in use
FilterButtons ==
    {<<"filter-all", None>>} \cup {<<"filter-status", st>> : st \in STATUSES}
      \cup {<<"filter-tag", db.tags[l[2]]>> : l \in db.task_tags}

\* no call of parse_command is in progress
ParseIdle ==
    /\ command = <<>>
    /\ pc = "idle"
    /\ parts = <<>>
    /\ tags = <<>>
    /\ deadline = None
    /\ i = 0
    /\ chunk_size = 0
    /\ best_deadline = None
    /\ best_i = 0
    /\ best_chunk_size = 0
    /\ title = <<>>
    /\ accepted = {}
    /\ calls = <<>>

OnMainTable == ui.running /\ ui.screen = "main" /\ ui.focus = "table" /\ pc = "idle"

AppInitial == AppInit /\ ParseIdle

\* key n: push NewTaskScreen
ActionNewTask ==
    /\ OnMainTable
    /\ ~ui.refresh_pending
    /\ ui' = [ui EXCEPT !.screen = "new_task"]
    /\ UNCHANGED <<db, filter_status, filter_tag, filter_search, table_rows, cursor_row>>
    /\ UNCHANGED parseVars

\* NewTaskScreen.on_button_pressed, button add, up to the call of parse_command
NewTaskSubmit ==
    /\ ui.running /\ ui.screen = "new_task" /\ pc = "idle"
    /\ db.seq < MaxTasks
    /\ \E cmd \in AppCommands : command' = cmd
    /\ pc' = "split"
    /\ UNCHANGED <<parts, tags, deadline, i, chunk_size, best_deadline,
                   best_i, best_chunk_size, title, accepted, calls>>
    /\ UNCHANGED appVars

\* NewTaskScreen.on_button_pressed, button add, from the return of
\* parse_command: add_task, pop_screen, refresh_table; an exception of
\* add_task is shown and the screen stays
NewTaskAdd ==
    /\ ui.running /\ ui.screen = "new_task" /\ pc = "done"
    /\ db' = add_task(db, title, <<>>, deadline, tags)
    /\ IF add_task_raises(db, tags)
       THEN /\ ui' = [ui EXCEPT !.status_error = TRUE]
            /\ UNCHANGED <<table_rows, cursor_row>>
       ELSE /\ ui' = [ui EXCEPT !.screen = "main", !.status_error = FALSE]
            /\ table_rows' = RefreshRows(db', filter_status, filter_tag, filter_search)
            /\ cursor_row' = 0
    /\ command' = <<>> /\ pc' = "idle" /\ parts' = <<>> /\ tags' = <<>>
    /\ deadline' = None /\ i' = 0 /\ chunk_size' = 0 /\ best_deadline' = None
    /\ best_i' = 0 /\ best_chunk_size' = 0 /\ title' = <<>>
    /\ accepted' = {} /\ calls' = <<>>
    /\ UNCHANGED <<filter_status, filter_tag, filter_search>>

\* NewTaskScreen: button cancel or key escape
NewTaskCancel ==
    /\ ui.running /\ ui.screen = "new_task" /\ pc = "idle"
    /\ ui' = [ui EXCEPT !.screen = "main", !.status_error = FALSE]
    /\ UNCHANGED <<db, filter_status, filter_tag, filter_search, table_rows, cursor_row>>
    /\ UNCHANGED parseVars

\* key f: push FilterScreen
ActionShowFilters ==
    /\ OnMainTable
    /\ ~ui.refresh_pending
    /\ ui' = [ui EXCEPT !.screen = "filter"]
    /\ UNCHANGED <<db, filter_status, filter_tag, filter_search, table_rows, cursor_row>>
    /\ UNCHANGED parseVars

StatusAfterButton_KeptOnTag(b, old) ==
    IF b[1] = "filter-status" THEN b[2]
    ELSE IF b[1] = "filter-tag" THEN old
    ELSE NoStatus

\* self.app.filter_status after the if / elif / elif on the button's id
StatusAfterButton(b, old) == IF b[1] = "filter-status" THEN b[2] ELSE NoStatus

\* self.app.filter_tag after the if / elif / elif on the button's id
TagAfterButton(b, old) == IF b[1] = "filter-tag" THEN b[2] ELSE None

\* FilterScreen.on_button_pressed: set the filters, pop the screen, start the timer
FilterButtonPressed ==
    /\ ui.running /\ ui.screen = "filter"
    /\ \E b \in FilterButtons :
          /\ filter_status' = StatusAfterButton(b, filter_status)
          /\ filter_tag' = TagAfterButton(b, filter_tag)
    /\ ui' = [ui EXCEPT !.screen = "main", !.refresh_pending = TRUE]
    /\ UNCHANGED <<db, filter_search, table_rows, cursor_row>>
    /\ UNCHANGED parseVars

\* FilterScreen.action_quit
FilterQuit ==
    /\ ui.running /\ ui.screen = "filter"
    /\ ui' = [ui EXCEPT !.screen = "main"]
    /\ UNCHANGED <<db, filter_status, filter_tag, filter_search, table_rows, cursor_row>>
    /\ UNCHANGED parseVars

\* the timer of set_timer(0.1, refresh_table) fires
TimerRefresh ==
    /\ ui.running /\ ui.screen = "main" /\ ui.refresh_pending /\ pc = "idle"
    /\ table_rows' = RefreshRows(db, filter_status, filter_tag, filter_search)
    /\ cursor_row' = 0
    /\ ui' = [ui EXCEPT !.refresh_pending = FALSE]
    /\ UNCHANGED <<db, filter_status, filter_tag, filter_search>>
    /\ UNCHANGED parseVars

\* key s: show the search box and focus it, or hide it and clear the search
ActionShowSearch ==
    /\ OnMainTable
    /\ IF ui.search_visible
       THEN /\ ui' = [ui EXCEPT !.search_visible = FALSE]
            /\ filter_search' = <<>>
            /\ table_rows' = RefreshRows(db, filter_status, filter_tag, filter_search')
            /\ cursor_row' = 0
       ELSE /\ ui' = [ui EXCEPT !.search_visible = TRUE, !.focus = "search"]
            /\ UNCHANGED <<filter_search, table_rows, cursor_row>>
    /\ UNCHANGED <<db, filter_status, filter_tag>>
    /\ UNCHANGED parseVars

\* TodoApp.on_input_changed: the search box's text changes
SearchInputChanged ==
    /\ ui.running /\ ui.screen = "main" /\ ui.search_visible /\ ui.focus = "search"
    /\ \E text \in SearchTexts : filter_search' = lower(text)
    /\ table_rows' = RefreshRows(db, filter_status, filter_tag, filter_search')
    /\ cursor_row' = 0
    /\ UNCHANGED <<db, filter_status, filter_tag, ui>>
    /\ UNCHANGED parseVars

\* TodoApp.on_key, escape: hide the search box and clear the search
EscapeKey ==
    /\ ui.running /\ ui.screen = "main" /\ ui.search_visible
    /\ ui' = [ui EXCEPT !.search_visible = FALSE, !.focus = "table"]
    /\ filter_search' = <<>>
    /\ table_rows' = RefreshRows(db, filter_status, filter_tag, filter_search')
    /\ cursor_row' = 0
    /\ UNCHANGED <<db, filter_status, filter_tag>>
    /\ UNCHANGED parseVars

\* the focus goes from the search box back to the table (tab or click)
FocusTable ==
    /\ ui.running /\ ui.screen = "main" /\ ui.focus = "search"
    /\ ui' = [ui EXCEPT !.focus = "table"]
    /\ UNCHANGED <<db, filter_status, filter_tag, filter_search, table_rows, cursor_row>>
    /\ UNCHANGED parseVars

\* keys up and down in the table
CursorMove ==
    /\ OnMainTable
    /\ \E r \in 0..(Len(table_rows) - 1) : r # cursor_row /\ cursor_row' = r
    /\ UNCHANGED <<db, filter_status, filter_tag, filter_search, table_rows, ui>>
    /\ UNCHANGED parseVars

\* key d: action_delete_task.  cursor_row is a number also for an empty
\* table; tasks[current_row] raises IndexError when there is no such task,
\* which ends the app.
ActionDeleteTask ==
    /\ OnMainTable
    /\ LET current_row == cursor_row
           tasks == get_tasks(db)
       IN IF current_row >= Len(tasks)
          THEN /\ ui' = [ui EXCEPT !.running = FALSE]
               /\ UNCHANGED <<db, table_rows, cursor_row>>
          ELSE LET task_id == tasks[current_row + 1].id IN
               /\ db' = delete_task(db, task_id)
               /\ table_rows' = RefreshRows(db', filter_status, filter_tag, filter_search)
               /\ cursor_row' = IF Len(table_rows') > 0
                                THEN ClampRow(Min(current_row, Len(table_rows') - 1),
                                              Len(table_rows'))
                                ELSE 0
               /\ UNCHANGED ui
    /\ UNCHANGED <<filter_status, filter_tag, filter_search>>
    /\ UNCHANGED parseVars

\* key space: action_change_status
ActionChangeStatus ==
    /\ OnMainTable
    /\ LET current_row == cursor_row
           tasks == get_tasks(db)
       IN IF current_row >= Len(tasks)
          THEN /\ ui' = [ui EXCEPT !.running = FALSE]
               /\ UNCHANGED <<db, table_rows, cursor_row>>
          ELSE LET task == tasks[current_row + 1]
                   new_status == status_cycle(task.status)
               IN /\ db' = update_task_status(db, task.id, new_status)
                  /\ table_rows' = RefreshRows(db', filter_status, filter_tag, filter_search)
                  /\ cursor_row' = ClampRow(current_row, Len(table_rows'))
                  /\ UNCHANGED ui
    /\ UNCHANGED <<filter_status, filter_tag, filter_search>>
    /\ UNCHANGED parseVars

\* the steps of parse_command, called from NewTaskScreen
ParseStep ==
    \/ Tokenize
    \/ ExtractTags
    \/ KeywordStep
    \/ KeywordLoopEnd
    \/ WindowInit
    \/ WindowStep
    \/ WindowNextSize
    \/ WindowEnd
    \/ AssembleTitle

AppNext ==
    \/ ActionNewTask
    \/ NewTaskSubmit
    \/ ParseStep
    \/ NewTaskAdd
    \/ NewTaskCancel
    \/ ActionShowFilters
    \/ FilterButtonPressed
    \/ FilterQuit
    \/ TimerRefresh
    \/ ActionShowSearch
    \/ SearchInputChanged
    \/ EscapeKey
    \/ FocusTable
    \/ CursorMove
    \/ ActionDeleteTask
    \/ ActionChangeStatus

AppSpec == AppInitial /\ [][AppNext]_vars

-----------------------------------------------------------------------------
(* Vocabulary of the properties.  These are stated over the input, the      *)
(* resolver's calls and the result, without the operators parse_command is  *)
(* modelled with.                                                           *)

\* the whitespace-delimited tokens of the input
InputTokens == split(command)

IsTagToken(tok) == tok[1] = "#"

IsPlainToken(tok) == tok[1] # "#"

\* t[0..n-1] of the properties, as t[1..n]
NonTagTokens == SelectSeq(InputTokens, IsPlainToken)

Count(seq, x) == Cardinality({k \in DOMAIN seq : seq[k] = x})

SeqRange(seq) == {seq[k] : k \in DOMAIN seq}

KeywordSet == { <<"f", "o", "r">>, <<"d", "u", "e">>, <<"b", "y">>, <<"o", "n">> }

\* the phrase whose resolution became the deadline
DeadlinePhrase == IF deadline = None THEN <<>> ELSE deadline[2]

TagTokens == [k \in DOMAIN tags |-> <<"#">> \o tags[k]]

\* the calls of each stage, and those the resolver accepted
KeywordCalls == {k \in DOMAIN calls : calls[k].stage = "keyword"}

WindowCalls == {k \in DOMAIN calls : calls[k].stage = "window"}

KeywordHits == {k \in KeywordCalls : calls[k].phrase \in accepted}

\* the keyword token that anchored the deadline phrase, if the keyword path set it
KeywordAnchor(t) ==
    IF KeywordHits = {} THEN <<>>
    ELSE << t[calls[CHOOSE k \in KeywordHits : TRUE].start] >>

\* the phrase of t[a..b-1], 0-based and half-open as in the source
Phrase(t, a, b) == SingleSpaced(SubSeq(t, a + 1, b))

\* the windows <<start, length>> of stage 4 whose phrase the resolver accepts
ResolvableWindows(t) ==
    { w \in (0..Len(t)) \X (2..Min(5, Len(t))) :
        w[1] + w[2] <= Len(t) /\ Phrase(t, w[1], w[1] + w[2]) \in accepted }

\* no token of the string starts with '#'
HasNoTagToken(str) ==
    \A j \in DOMAIN str : str[j] = "#" => (j > 1 /\ ~IsSpace(str[j - 1]))

-----------------------------------------------------------------------------
\* C1 (as stated): at the return, title tokens + deadline-phrase tokens +
\* '#'-prefixed tag tokens are, as a multiset, the tokens of the input.
C1_NoTokenLost ==
    pc = "done" =>
        LET inp == InputTokens
            tt  == split(title)
            dp  == split(DeadlinePhrase)
        IN \A tok \in SeqRange(inp) \cup SeqRange(tt) \cup SeqRange(dp) \cup SeqRange(TagTokens) :
              Count(tt, tok) + Count(dp, tok) + Count(TagTokens, tok) = Count(inp, tok)

\* C1 (amended): the same, with the keyword token that anchored the deadline
\* phrase counted as well when the keyword path set the deadline.
C1_NoTokenLostButKeyword ==
    pc = "done" =>
        LET inp == InputTokens
            tt  == split(title)
            dp  == split(DeadlinePhrase)
            kw  == KeywordAnchor(NonTagTokens)
        IN \A tok \in SeqRange(inp) \cup SeqRange(tt) \cup SeqRange(dp) \cup SeqRange(TagTokens) :
              Count(tt, tok) + Count(dp, tok) + Count(kw, tok) + Count(TagTokens, tok)
                = Count(inp, tok)

\* a return where the keyword path consumed its keyword and a tag was extracted
C1_Witness ==
    /\ pc = "done"
    /\ KeywordHits # {}
    /\ tags # <<>>
    /\ Len(InputTokens) = 3

-----------------------------------------------------------------------------
\* C2: from every input, parse_command reaches its return, and what it
\* returns is a title string, a deadline or None, and a sequence of tags.
C2_Total ==
    <>( /\ pc = "done"
        /\ title \in Seq({"x", "y", "B", "o", "n", " "})
        /\ deadline = None \/ (Len(deadline) = 2 /\ deadline[2] \in accepted)
        /\ DOMAIN tags = 1..Len(tags) )

\* a return after both loops ran to their end
C2_Witness ==
    /\ pc = "done"
    /\ KeywordCalls # {}
    /\ \E k \in WindowCalls : calls[k].len = 2 /\ calls[k].start > 0

-----------------------------------------------------------------------------
\* C3: the tags are the '#'-tokens of the input without their '#', in input
\* order, repeats kept, on every path and for every resolver.
C3_TagsInOrder ==
    pc \notin {"split", "tags", "raised"} =>
        LET inp    == InputTokens
            tagPos == {j \in DOMAIN inp : IsTagToken(inp[j])}
            \* the position in the input of the k-th token that starts with '#'
            nth(k) == CHOOSE j \in tagPos : Cardinality({m \in tagPos : m <= j}) = k
        IN /\ Len(tags) = Cardinality(tagPos)
           /\ \A k \in DOMAIN tags : tags[k] = Tail(inp[nth(k)])

\* a return where the same tag stood before and after a plain word
C3_Witness ==
    /\ pc = "done"
    /\ Len(tags) = 2
    /\ tags[1] = tags[2]
    /\ tags[1] # <<>>
    /\ title # <<>>
    /\ IsTagToken(InputTokens[1])
    /\ IsTagToken(InputTokens[Len(InputTokens)])

-----------------------------------------------------------------------------
\* the 0-based keyword positions that have a token after them
KeywordPositions(t) ==
    {k \in 0..(Len(t) - 1) : k + 1 < Len(t) /\ lower(t[k + 1]) \in KeywordSet}

\* the resolver accepts the tail after the keyword at position k
KeywordTailAccepted(t, k) == Phrase(t, k + 1, Len(t)) \in accepted

\* C4: with k the smallest keyword position whose tail the resolver accepts,
\* the deadline is the resolver's value for that tail, the title is
\* t[0..k-1] joined with single spaces, and no later keyword is tried.
C4_KeywordPath ==
    pc = "done" =>
        LET t == NonTagTokens IN
        \A k \in KeywordPositions(t) :
            (KeywordTailAccepted(t, k)
               /\ \A j \in KeywordPositions(t) : j < k => ~KeywordTailAccepted(t, j))
            => /\ deadline = DateOf(Phrase(t, k + 1, Len(t)))
               /\ title = Phrase(t, 0, k)
               /\ \A c \in KeywordCalls : calls[c].start <= k + 1

\* the second keyword's tail resolved after the first one's did not
C4_Witness ==
    /\ pc = "done"
    /\ LET t == NonTagTokens IN
       \E k \in KeywordPositions(t) :
          /\ KeywordTailAccepted(t, k)
          /\ \E j \in KeywordPositions(t) : j < k /\ ~KeywordTailAccepted(t, j)
          /\ title # <<>>

-----------------------------------------------------------------------------
\* C5: once a keyword tail has resolved, no window phrase is submitted and
\* the result is the keyword path's, whatever windows would resolve.
C5_KeywordFirst ==
    KeywordHits # {} =>
        /\ WindowCalls = {}
        /\ pc = "done" =>
              \E k \in KeywordHits :
                  /\ deadline = DateOf(calls[k].phrase)
                  /\ title = Phrase(NonTagTokens, 0, calls[k].start - 1)

\* the keyword path won although a window that starts left of the keyword
\* resolves as well
C5_Witness ==
    /\ pc = "done"
    /\ \E k \in KeywordHits :
          \E w \in ResolvableWindows(NonTagTokens) : w[1] < calls[k].start - 1

-----------------------------------------------------------------------------
-----------------------------------------------------------------------------
\* C7: when the resolver accepts no submitted phrase, the deadline is absent
\* and the title is every non-tag token in order, single-spaced.
C7_Degrades ==
    (pc = "done" /\ accepted = {}) =>
        /\ deadline = None
        /\ title = SingleSpaced(NonTagTokens)

\* nothing resolved although a keyword tail and windows were submitted
C7_Witness ==
    /\ pc = "done"
    /\ accepted = {}
    /\ KeywordCalls # {}
    /\ WindowCalls # {}
    /\ \E tok \in SeqRange(split(title)) : lower(tok) \in KeywordSet
    /\ tags # <<>>

-----------------------------------------------------------------------------
\* C8: after stage 2 a second tag extraction finds nothing and changes
\* nothing; no '#'-token is in a submitted phrase, the deadline phrase or the title.
C8_TagsFullyRemoved ==
    pc \notin {"split", "tags", "raised"} =>
        /\ SelectTags(parts) = <<>>
        /\ RemoveTags(parts) = parts
        /\ \A k \in DOMAIN parts : ~IsTagToken(parts[k])
        /\ \A k \in DOMAIN calls : HasNoTagToken(calls[k].phrase)
        /\ HasNoTagToken(DeadlinePhrase)
        /\ HasNoTagToken(title)

\* a tag stood between the two tokens of the phrase that resolved
C8_Witness ==
    /\ pc = "done"
    /\ deadline # None
    /\ LET inp == InputTokens IN
       \E j \in DOMAIN inp :
          /\ 1 < j /\ j < Len(inp)
          /\ IsTagToken(inp[j])
          /\ DeadlinePhrase = SingleSpaced(<<inp[j - 1], inp[j + 1]>>)

-----------------------------------------------------------------------------
\* C10: every phrase the windowed search submits is a run of 2..min(5, n)
\* consecutive non-tag tokens; when nothing but single tokens could resolve
\* and no keyword tail did, the deadline is absent and all tokens stay.
C10_WindowLengths ==
    LET t == NonTagTokens IN
    /\ \A k \in WindowCalls :
          LET c == calls[k] IN
          /\ c.len >= 2
          /\ c.len <= Min(5, Len(t))
          /\ c.start + c.len <= Len(t)
          /\ c.phrase = Phrase(t, c.start, c.start + c.len)
    /\ (pc = "done" /\ KeywordHits = {} /\ \A p \in accepted : Len(split(p)) = 1) =>
          /\ deadline = None
          /\ split(title) = t

\* the search ran on more than five tokens, down to the last window of two
C10_Witness ==
    /\ pc = "done"
    /\ Len(NonTagTokens) > 5
    /\ \E k \in WindowCalls : calls[k].len = 5
    /\ \E k \in WindowCalls : calls[k].len = 2 /\ calls[k].start = Len(NonTagTokens) - 2
    /\ deadline = None

-----------------------------------------------------------------------------
TaskIds(d) == {d.tasks[k].id : k \in DOMAIN d.tasks}

StatusOfTask(d, id) == (CHOOSE t \in SeqRange(d.tasks) : t.id = id).status

\* the tasks a step deletes, and those whose status it changes
DeletedTasks == TaskIds(db) \ TaskIds(db')

StatusChangedTasks ==
    {id \in TaskIds(db) \cap TaskIds(db') : StatusOfTask(db, id) # StatusOfTask(db', id)}

\* C9: a task that a step deletes, or whose status a step changes, is the
\* task shown at the table's cursor row when the key is pressed (stated for
\* the steps taken while the table shows a row at the cursor).
C9_ActsOnCursorRow ==
    [][cursor_row < Len(table_rows) =>
          \A id \in DeletedTasks \cup StatusChangedTasks : table_rows[cursor_row + 1] = id]_vars

-----------------------------------------------------------------------------
\* the last non-tag token is a keyword
TrailingKeyword(t) == Len(t) > 0 /\ lower(t[Len(t)]) \in KeywordSet

\* stage 4 selected a window that reaches the last token
WindowTakesLast(t) ==
    KeywordHits = {} /\ deadline # None /\ best_i + best_chunk_size = Len(t)

\* the title's last token is the last non-tag token of the input
TitleKeepsLast(t) ==
    LET tt == split(title) IN tt # <<>> /\ tt[Len(tt)] = t[Len(t)]

\* the resolver is never called for a keyword that has no token after it,
\* and such a keyword never anchors the deadline
NoTrailingAnchor(t) ==
    \A k \in KeywordCalls : calls[k].len >= 1 /\ calls[k].start < Len(t)

\* C11 (as stated): a keyword that is the last non-tag token is never a
\* deadline anchor, and unless stage 4 selects a window containing it, it
\* stays in the title.
C11_TrailingKeywordStays ==
    LET t == NonTagTokens IN
    TrailingKeyword(t) =>
        /\ NoTrailingAnchor(t)
        /\ (pc = "done" /\ ~WindowTakesLast(t)) => TitleKeepsLast(t)

\* C11 (amended): the same, the keyword staying in the title unless stage 4
\* selects a window containing it or the tail of an earlier keyword, which
\* contains it, resolved in stage 3.
C11_TrailingKeywordNoAnchor ==
    LET t == NonTagTokens IN
    TrailingKeyword(t) =>
        /\ NoTrailingAnchor(t)
        /\ (pc = "done" /\ ~WindowTakesLast(t) /\ KeywordHits = {}) => TitleKeepsLast(t)
        /\ (pc = "done" /\ KeywordHits # {}) =>
              \E k \in KeywordHits : calls[k].start + calls[k].len = Len(t)

\* a window left of a trailing keyword was selected and the keyword is the title
C11_Witness ==
    /\ pc = "done"
    /\ TrailingKeyword(NonTagTokens)
    /\ Len(NonTagTokens) = 3
    /\ KeywordHits = {}
    /\ deadline # None
    /\ lower(title) \in KeywordSet

-----------------------------------------------------------------------------
\* t without the tokens [a, a+len), 0-based as in the source
WithoutSpan(t, a, len) == SubSeq(t, 1, a) \o SubSeq(t, a + len + 1, Len(t))

\* the windowed search set the deadline
WindowSelected == pc = "done" /\ KeywordHits = {} /\ deadline # None

\* C12: when the windowed search selects window [i, i+L), the deadline is the
\* resolver's value for that window's phrase and the title is tokens [0, i)
\* followed by tokens [i+L, n), single-spaced; when the only resolvable
\* window has length 3 and starts at index 2, tokens 2, 3 and 4 are removed.
C12_SpanRemoval ==
    LET t == NonTagTokens IN
    /\ WindowSelected =>
          /\ \E k \in WindowCalls :
                /\ calls[k].start = best_i /\ calls[k].len = best_chunk_size
                /\ calls[k].phrase = Phrase(t, best_i, best_i + best_chunk_size)
                /\ calls[k].phrase \in accepted
          /\ deadline = DateOf(Phrase(t, best_i, best_i + best_chunk_size))
          /\ title = SingleSpaced(WithoutSpan(t, best_i, best_chunk_size))
    /\ (pc = "done" /\ KeywordHits = {} /\ ResolvableWindows(t) = {<<2, 3>>}) =>
          /\ deadline = DateOf(SingleSpaced(<<t[3], t[4], t[5]>>))
          /\ title = SingleSpaced(SubSeq(t, 1, 2) \o SubSeq(t, 6, Len(t)))

\* the only resolvable window is [2, 5) and a token stands after it
C12_Witness ==
    /\ WindowSelected
    /\ ResolvableWindows(NonTagTokens) = {<<2, 3>>}
    /\ Len(NonTagTokens) = 6
    /\ Len(split(title)) = 3

-----------------------------------------------------------------------------
\* C13: among the resolvable windows the chosen one has the smallest start
\* and, among those with that start, the greatest length (the earliest and
\* largest valid date phrase).
C13_EarliestLargest ==
    (pc = "done" /\ KeywordHits = {}) =>
        LET rw == ResolvableWindows(NonTagTokens) IN
        rw # {} =>
           /\ <<best_i, best_chunk_size>> \in rw
           /\ \A w \in rw : best_i <= w[1]
           /\ \A w \in rw : w[1] = best_i => w[2] <= best_chunk_size

-----------------------------------------------------------------------------
RECURSIVE IsSubsequence(_, _)
\* u is t with some elements left out
IsSubsequence(u, t) ==
    IF u = <<>> THEN TRUE
    ELSE IF t = <<>> THEN FALSE
    ELSE IF Head(u) = Head(t) THEN IsSubsequence(Tail(u), Tail(t))
    ELSE IsSubsequence(u, Tail(t))

\* C14: on every path the title's tokens are a subsequence of the input's
\* non-tag tokens, in their order, with exactly one space between neighbours
\* and no whitespace at either end.
C14_TitleAssembly ==
    pc = "done" =>
        LET tt == split(title) IN
        /\ IsSubsequence(tt, NonTagTokens)
        /\ title = SingleSpaced(tt)
        /\ title # <<>> => ~IsSpace(title[1]) /\ ~IsSpace(title[Len(title)])
        /\ \A k \in 1..(Len(title) - 1) : ~(IsSpace(title[k]) /\ IsSpace(title[k + 1]))

\* a window was cut out of the middle: the title is the first and the last token
C14_Witness ==
    /\ pc = "done"
    /\ KeywordHits = {}
    /\ deadline # None
    /\ best_i > 0
    /\ best_i + best_chunk_size < Len(NonTagTokens)
    /\ Len(split(title)) = 2

-----------------------------------------------------------------------------
\* the step is a press of a button of FilterScreen
FilterButtonStep == ui.screen = "filter" /\ ui'.refresh_pending

\* the filters a button can leave: none, one status, or one tag in use
FilterChoices ==
    {<<NoStatus, None>>} \cup {<<st, None>> : st \in STATUSES}
      \cup {<<NoStatus, tg>> : tg \in SeqRange(db.tags)}

\* C15: after every step at most one of filter_status and filter_tag is set;
\* a filter button leaves no filter, one status without a tag, or one tag
\* without a status, and leaves filter_search as it was.
C15_OneFilter ==
    [][/\ ~(filter_status' # NoStatus /\ filter_tag' # None)
       /\ FilterButtonStep =>
             /\ <<filter_status', filter_tag'>> \in FilterChoices
             /\ filter_search' = filter_search]_vars

\* a tag button was pressed while a status filter hid every task: the table
\* is still the empty one of the status filter
C15_Witness ==
    /\ filter_tag # None
    /\ filter_status = NoStatus
    /\ ui.refresh_pending
    /\ table_rows = <<>>
    /\ filter_search = <<>>
    /\ db.task_tags # {}

-----------------------------------------------------------------------------
\* the step is the call of add_task with what parse_command returned
AddTaskStep == pc = "done" /\ pc' = "idle"

\* the call raised: NewTaskScreen shows the error and stays
AddTaskRaised == ui'.screen = "new_task" /\ ui'.status_error

\* the links of one task
LinksOf(d, task_id) == {l \in d.task_tags : l[1] = task_id}

\* the row of the new task and one link per tag are in the database after
\* the step, next to everything that was there before
TaskPersisted ==
    LET task_id == db.seq + 1 IN
    /\ db'.tasks = Append(db.tasks, [id |-> task_id, title |-> title, description |-> <<>>,
                                     deadline |-> deadline, status |-> "todo"])
    /\ \A k \in DOMAIN tags :
          \E g \in DOMAIN db'.tags : db'.tags[g] = tags[k] /\ <<task_id, g>> \in db'.task_tags
    /\ Cardinality(LinksOf(db', task_id)) = Len(tags)
    /\ db.task_tags = db'.task_tags \ LinksOf(db', task_id)
    /\ SubSeq(db'.tags, 1, Len(db.tags)) = db.tags

\* C16: a call of add_task that raises, as it does when a tag name comes
\* twice, leaves the database as it was before the call; a call that returns
\* has persisted the task row with status 'todo' and one link per tag.
C16_AddTaskAtomic ==
    [][AddTaskStep =>
          /\ (\E j, k \in DOMAIN tags : j < k /\ tags[j] = tags[k]) => AddTaskRaised
          /\ IF AddTaskRaised THEN db' = db ELSE TaskPersisted]_vars

\* add_task raised on a repeated tag while the database held a task and a tag
C16_Witness ==
    /\ ui.screen = "new_task"
    /\ ui.status_error
    /\ pc = "idle"
    /\ db.tasks # <<>>
    /\ db.task_tags # {}

=============================================================================
